---- MODULE Spec2Model ----
(***************************************************************************)
(* PierreFS (hepunion): a two-branch union file system.  The model covers *)
(* the whiteout manager of main.c (wh.c part) and the inode operations of *)
(* opts.c, over one concrete file system that holds both branches.        *)
(*                                                                         *)
(* Paths are sequences of one-character strings, so that the marker path  *)
(* composition (strrchr / snprintf / strncat / strcat) is computed as the *)
(* code computes it.                                                       *)
(***************************************************************************)
EXTENDS Integers, Sequences, FiniteSets, TLC

VARIABLES
    fs,      \* the underlying storage: concrete path -> object (both branches)
    last,    \* the request that returned last: operation, path, result, ...
    trip,    \* progress of a create / delete / create round trip on one path
    nops,    \* number of requests served so far
    mnt,     \* the mount: branch specification, result, mount context
    ctx,     \* the path buffers global1 / global2 of the mount context
    thr      \* the requests in flight at once: position and locals of each

vars == <<fs, last, trip, nops, mnt, ctx, thr>>

-----------------------------------------------------------------------------
(* errno values and find_file results, as the handlers compare them *)

EPERM == 1
ENOENT == 2
EIO == 5
EACCES == 13
EEXIST == 17
EISDIR == 21
ENOTDIR == 20
EINVAL == 22
ENAMETOOLONG == 36

READ_ONLY == 0
READ_WRITE == 1
READ_WRITE_COPYUP == 2

PATH_MAX == 4096

\* requests followed from mount
MaxOps == 3

MUST_READ_ONLY == "MUST_READ_ONLY"

is_flag_set(flags, f) == f \in flags

-----------------------------------------------------------------------------
(* the mount context and the names used by this model *)

read_only_branch == <<"/", "r">>
read_write_branch == <<"/", "w">>

\* the requesting identity (not the fixed system identity 0:0)
Requester == [uid |-> 1, gid |-> 1]

\* leaf names a request can carry
NameA == <<"a">>
NameD == <<"d">>
NameWhA == <<".", "w", "h", ".", "a">>

\* dentries: the chain of names from the root of the union down to the object
Dentries == { <<NameA>>, <<NameD>>, <<NameD, NameA>>, <<NameWhA>> }

\* the objects a link request can name as its source
LinkSources == { <<NameA>>, <<NameD, NameA>> }

\* what a request can meet in the underlying storage: no failure, or the
\* failure of one of the steps it goes through
Faults(points) == {{}} \cup { {x} : x \in points }

-----------------------------------------------------------------------------
(* C string helpers *)

Min(a, b) == IF a < b THEN a ELSE b

\* strrchr(s, c): index of the last c in s, 0 for NULL
strrchr(s, c) ==
    IF \E i \in 1..Len(s) : s[i] = c
    THEN CHOOSE i \in 1..Len(s) : s[i] = c /\ \A j \in (i+1)..Len(s) : s[j] # c
    ELSE 0

\* snprintf(buf, n, "%s", s): at most n-1 characters are written, the full
\* length is returned
snprintf(n, s) == [buf |-> SubSeq(s, 1, Min(Len(s), n - 1)), len |-> Len(s)]

strncat(dst, src, n) == dst \o SubSeq(src, 1, Min(n, Len(src)))

strcat(dst, src) == dst \o src

\* the string that starts at s + i (a pointer into s)
StrFrom(s, i) == SubSeq(s, i, Len(s))

-----------------------------------------------------------------------------
(* the underlying storage *)

Put(f, p, o) == [q \in (DOMAIN f) \cup {p} |-> IF q = p THEN o ELSE f[q]]
Del(f, p) == [q \in (DOMAIN f) \ {p} |-> f[q]]

Dir(owner) == [kind |-> "dir", uid |-> owner.uid, gid |-> owner.gid, mode |-> "0755", target |-> <<>>]

ParentOf(p) == SubSeq(p, 1, strrchr(p, "/") - 1)

vfs_lstat(f, p) == IF p \in DOMAIN f THEN 0 ELSE -ENOENT

get_path_dentry(f, p) ==
    IF p \in DOMAIN f THEN [err |-> 0, dentry |-> p] ELSE [err |-> -ENOENT, dentry |-> <<>>]

\* vfs_unlink: removes a non-directory; the storage may refuse
vfs_unlink(f, p, flt) ==
    IF "unlink" \in flt THEN [err |-> -EIO, fs |-> f]
    ELSE IF f[p].kind = "dir" THEN [err |-> -EISDIR, fs |-> f]
    ELSE [err |-> 0, fs |-> Del(f, p)]

-----------------------------------------------------------------------------
(* path helpers: virtual path of a dentry, concrete paths of a virtual path *)

RECURSIVE JoinPath(_)
JoinPath(d) == IF d = <<>> THEN <<>> ELSE <<"/">> \o Head(d) \o JoinPath(Tail(d))

\* get_relative_path: the virtual path of a dentry, from its chain of names
get_relative_path(dentry, flt) ==
    IF "relpath" \in flt THEN [err |-> -ENAMETOOLONG, path |-> <<>>]
    ELSE [err |-> 0, path |-> JoinPath(dentry)]

\* get_relative_path_for_file: the path of directory dir, a separator, the name
get_relative_path_for_file(dir, name, flt) ==
    IF "relpath" \in flt THEN [err |-> -ENAMETOOLONG, path |-> <<>>]
    ELSE [err |-> 0, path |-> JoinPath(dir) \o <<"/">> \o name]

make_ro_path(path) == strcat(read_only_branch, path)
make_rw_path(path) == strcat(read_write_branch, path)

-----------------------------------------------------------------------------
(* whiteout lookup (wh.c part of main.c) *)

\* find_whiteout looking for the metadata marker instead of the whiteout
find_whiteout_me(f, path) ==
    LET tree_path == strrchr(path, "/") IN
    IF tree_path = 0 THEN -EINVAL
    ELSE LET sn == snprintf(PATH_MAX, read_write_branch) IN
    IF sn.len > PATH_MAX THEN -ENAMETOOLONG
    ELSE LET wh1 == strncat(sn.buf, path, tree_path)
             wh2 == strcat(wh1, <<".", "m", "e", ".">>)
             wh_path == strcat(wh2, StrFrom(path, tree_path + 1))
         IN vfs_lstat(f, wh_path)

find_whiteout(f, path) ==
    LET tree_path == strrchr(path, "/") IN
    IF tree_path = 0 THEN -EINVAL
    ELSE LET sn == snprintf(PATH_MAX, read_write_branch) IN
    IF sn.len > PATH_MAX THEN -ENAMETOOLONG
    ELSE LET wh1 == strncat(sn.buf, path, tree_path)
             wh2 == strcat(wh1, <<".", "w", "h", ".">>)
             wh_path == strcat(wh2, StrFrom(path, tree_path + 1))
         IN vfs_lstat(f, wh_path)

-----------------------------------------------------------------------------
(* the branch resolver *)

\* find_file: result is READ_ONLY / READ_WRITE / READ_WRITE_COPYUP, or -errno
find_file(f, path, flags) ==
    IF find_whiteout(f, path) = 0
    THEN [err |-> -ENOENT, real_path |-> <<>>]
    ELSE IF ~is_flag_set(flags, MUST_READ_ONLY) /\ vfs_lstat(f, make_rw_path(path)) = 0
    THEN [err |-> IF vfs_lstat(f, make_ro_path(path)) = 0
                  THEN READ_WRITE_COPYUP ELSE READ_WRITE,
          real_path |-> make_rw_path(path)]
    ELSE IF vfs_lstat(f, make_ro_path(path)) = 0
    THEN [err |-> READ_ONLY, real_path |-> make_ro_path(path)]
    ELSE [err |-> -ENOENT, real_path |-> <<>>]

-----------------------------------------------------------------------------
(* access overlay: the requesting identity may or may not write the parent *)

can_create(path, real_path, perm) == IF perm THEN 0 ELSE -EACCES
can_remove(path, real_path, perm) == IF perm THEN 0 ELSE -EACCES

-----------------------------------------------------------------------------
(* copy-up engine: ancestry on RW *)

RECURSIVE ensureAncestry(_, _)
ensureAncestry(f, dir) ==
    IF dir = <<>> THEN [err |-> 0, fs |-> f]
    ELSE LET loc == find_file(f, dir, {}) IN
    IF loc.err < 0 THEN [err |-> loc.err, fs |-> f]
    ELSE IF loc.err # READ_ONLY THEN [err |-> 0, fs |-> f]
    ELSE LET up == ensureAncestry(f, ParentOf(dir)) IN
    IF up.err < 0 THEN up
    ELSE [err |-> 0, fs |-> Put(up.fs, make_rw_path(dir), f[make_ro_path(dir)])]

\* find_path: creates / reuses the directories above path on RW and gives
\* the RW concrete path of path
find_path(f, path, flt) ==
    LET lst == strrchr(path, "/") IN
    IF lst = 0 THEN [err |-> -EINVAL, fs |-> f, real_path |-> <<>>]
    ELSE LET up == ensureAncestry(f, ParentOf(path)) IN
    IF up.err < 0 THEN [err |-> up.err, fs |-> f, real_path |-> <<>>]
    ELSE [err |-> 0, fs |-> up.fs, real_path |-> make_rw_path(path)]

-----------------------------------------------------------------------------
(* workers on concrete paths *)

NewObject(f, p, o, flt) ==
    IF "worker" \in flt THEN [err |-> -EIO, fs |-> f]
    ELSE IF p \in DOMAIN f THEN [err |-> -EEXIST, fs |-> f]
    ELSE IF ParentOf(p) \notin DOMAIN f THEN [err |-> -ENOENT, fs |-> f]
    ELSE IF f[ParentOf(p)].kind # "dir" THEN [err |-> -ENOTDIR, fs |-> f]
    ELSE [err |-> 0, fs |-> Put(f, p, o)]

mkdir_worker(f, real_path, mode, flt) ==
    NewObject(f, real_path,
              [kind |-> "dir", uid |-> Requester.uid, gid |-> Requester.gid,
               mode |-> mode, target |-> <<>>], flt)

\* mkfifo and mknod create a node; the storage keeps directories, symbolic
\* links and nodes apart (kind), and of the mode its permission bits
PermBits(mode) == "0644"

mkfifo(f, real_path, mode, flt) ==
    NewObject(f, real_path,
              [kind |-> "file", uid |-> Requester.uid, gid |-> Requester.gid,
               mode |-> PermBits(mode), target |-> <<>>], flt)

mknod(f, real_path, mode, flt) ==
    NewObject(f, real_path,
              [kind |-> "file", uid |-> Requester.uid, gid |-> Requester.gid,
               mode |-> PermBits(mode), target |-> <<>>], flt)

symlink_worker(f, target, linkpath, flt) ==
    NewObject(f, linkpath,
              [kind |-> "lnk", uid |-> Requester.uid, gid |-> Requester.gid,
               mode |-> "0777", target |-> target], flt)

link_worker(f, oldpath, newpath, flt) ==
    IF oldpath \notin DOMAIN f THEN [err |-> -ENOENT, fs |-> f]
    ELSE NewObject(f, newpath, f[oldpath], flt)

\* creat_worker: creates the file, or opens the file already there
creat_worker(f, p, mode, flt) ==
    IF "worker" \in flt THEN [err |-> -EIO, fs |-> f]
    ELSE IF p \in DOMAIN f
    THEN IF f[p].kind = "file" THEN [err |-> 0, fs |-> f] ELSE [err |-> -EEXIST, fs |-> f]
    ELSE NewObject(f, p,
                   [kind |-> "file", uid |-> Requester.uid, gid |-> Requester.gid,
                    mode |-> mode, target |-> <<>>], flt)

-----------------------------------------------------------------------------
(* whiteout manager (wh.c part of main.c) *)

\* notify_change with ATTR_UID | ATTR_GID, uid 0, gid 0
notify_change_owner(f, p, flt) ==
    IF "chown" \in flt THEN [err |-> -EPERM, fs |-> f]
    ELSE [err |-> 0, fs |-> [f EXCEPT ![p].uid = 0, ![p].gid = 0]]

\* open: the handles on the marker the call leaves open (fd is closed by
\* filp_close on the failure path only)
create_whiteout_worker(f, wh_path, flt) ==
    LET fd == creat_worker(f, wh_path, "S_IRUSR", flt) IN
    IF fd.err < 0 THEN [err |-> fd.err, fs |-> f, open |-> 0]
    ELSE LET nc == notify_change_owner(fd.fs, wh_path, flt) IN
    IF nc.err = 0 THEN [err |-> nc.err, fs |-> nc.fs, open |-> 1]
    ELSE \* close the file and delete it: vfs_unlink goes through fd after
         \* filp_close and its result is dropped, so the marker may stay
         [err |-> nc.err, fs |-> vfs_unlink(nc.fs, wh_path, flt).fs, open |-> 0]

\* create_whiteout composing the marker path from the RO root
create_whiteout_ro(f, path, flt) ==
    LET tree_path == strrchr(path, "/") IN
    IF tree_path = 0 THEN [err |-> -EINVAL, fs |-> f, open |-> 0]
    ELSE LET sn == snprintf(PATH_MAX, read_only_branch) IN
    IF sn.len > PATH_MAX THEN [err |-> -ENAMETOOLONG, fs |-> f, open |-> 0]
    ELSE LET wh1 == strncat(sn.buf, path, tree_path)
             wh2 == strcat(wh1, <<".", "w", "h", ".">>)
             wh_path == strcat(wh2, StrFrom(path, tree_path + 1))
             fp == find_path(f, path, flt)
         IN IF fp.err < 0 THEN [err |-> fp.err, fs |-> fp.fs, open |-> 0]
            ELSE create_whiteout_worker(fp.fs, wh_path, flt)

create_whiteout(f, path, flt) ==
    LET tree_path == strrchr(path, "/") IN
    IF tree_path = 0 THEN [err |-> -EINVAL, fs |-> f, open |-> 0]
    ELSE LET sn == snprintf(PATH_MAX, read_write_branch) IN
    IF sn.len > PATH_MAX THEN [err |-> -ENAMETOOLONG, fs |-> f, open |-> 0]
    ELSE LET wh1 == strncat(sn.buf, path, tree_path)
             wh2 == strcat(wh1, <<".", "w", "h", ".">>)
             wh_path == strcat(wh2, StrFrom(path, tree_path + 1))
             fp == find_path(f, path, flt)
         IN IF fp.err < 0 THEN [err |-> fp.err, fs |-> fp.fs, open |-> 0]
            ELSE create_whiteout_worker(fp.fs, wh_path, flt)

hide_directory_contents(path) == -EINVAL

unlink_whiteout(f, path, flt) ==
    LET tree_path == strrchr(path, "/") IN
    IF tree_path = 0 THEN [err |-> -EINVAL, fs |-> f]
    ELSE LET sn == snprintf(PATH_MAX, read_write_branch) IN
    IF sn.len > PATH_MAX THEN [err |-> -ENAMETOOLONG, fs |-> f]
    ELSE LET wh1 == strncat(sn.buf, path, tree_path)
             wh2 == strcat(wh1, <<".", "w", "h", ".">>)
             wh_path == strcat(wh2, StrFrom(path, tree_path + 1))
             dentry == get_path_dentry(f, wh_path)
         IN IF dentry.err < 0 THEN [err |-> dentry.err, fs |-> f]
            ELSE vfs_unlink(f, dentry.dentry, flt)

\* unlink_rw_file without the test of can_remove's result
unlink_rw_file_unchecked(f, path, rw_path, has_ro_sure, perm, flt) ==
    LET has_ro == IF ~has_ro_sure /\ find_file(f, path, {MUST_READ_ONLY}).err >= 0
                  THEN TRUE
                  ELSE IF has_ro_sure THEN TRUE ELSE FALSE
        cr == can_remove(path, rw_path, perm)
    IN
    LET dentry == get_path_dentry(f, rw_path) IN
    IF dentry.err < 0 THEN [err |-> dentry.err, fs |-> f, has_ro |-> has_ro, open |-> 0]
    ELSE LET ul == vfs_unlink(f, dentry.dentry, flt) IN
    IF ul.err < 0 THEN [err |-> ul.err, fs |-> ul.fs, has_ro |-> has_ro, open |-> 0]
    ELSE IF has_ro
    THEN \* the result of create_whiteout is dropped
         [err |-> 0, fs |-> create_whiteout(ul.fs, path, flt).fs, has_ro |-> has_ro,
          open |-> create_whiteout(ul.fs, path, flt).open]
    ELSE [err |-> 0, fs |-> ul.fs, has_ro |-> has_ro, open |-> 0]

unlink_rw_file(f, path, rw_path, has_ro_sure, perm, flt) ==
    LET has_ro == IF ~has_ro_sure /\ find_file(f, path, {MUST_READ_ONLY}).err >= 0
                  THEN TRUE
                  ELSE IF has_ro_sure THEN TRUE ELSE FALSE
        cr == can_remove(path, rw_path, perm)
    IN
    IF cr < 0 THEN [err |-> cr, fs |-> f, has_ro |-> has_ro, open |-> 0]
    ELSE LET dentry == get_path_dentry(f, rw_path) IN
    IF dentry.err < 0 THEN [err |-> dentry.err, fs |-> f, has_ro |-> has_ro, open |-> 0]
    ELSE LET ul == vfs_unlink(f, dentry.dentry, flt) IN
    IF ul.err < 0 THEN [err |-> ul.err, fs |-> ul.fs, has_ro |-> has_ro, open |-> 0]
    ELSE IF has_ro
    THEN \* the result of create_whiteout is dropped
         [err |-> 0, fs |-> create_whiteout(ul.fs, path, flt).fs, has_ro |-> has_ro,
          open |-> create_whiteout(ul.fs, path, flt).open]
    ELSE [err |-> 0, fs |-> ul.fs, has_ro |-> has_ro, open |-> 0]

-----------------------------------------------------------------------------
(* metadata overlay and attribute change *)

\* the attribute changes a request can carry
Attrs == { [ia_valid |-> {"ATTR_MODE"}, ia_mode |-> "0600"] }

\* notify_change on the object a dentry stands for
notify_change(f, p, attr, flt) ==
    IF "chown" \in flt THEN [err |-> -EPERM, fs |-> f]
    ELSE [err |-> 0, fs |-> [f EXCEPT ![p].mode = attr.ia_mode]]

\* set_me_worker: records the change in the .me. marker next to the RW place
\* of path; the object itself is not touched
set_me_worker(f, path, real_path, attr, flt) ==
    LET tree_path == strrchr(path, "/")
        me_path == strcat(strcat(strncat(read_write_branch, path, tree_path),
                                 <<".", "m", "e", ".">>),
                          StrFrom(path, tree_path + 1))
        fp == find_path(f, path, flt)
    IN
    IF fp.err < 0 THEN [err |-> fp.err, fs |-> fp.fs]
    ELSE IF "worker" \in flt THEN [err |-> -EIO, fs |-> fp.fs]
    ELSE [err |-> 0,
          fs |-> Put(fp.fs, me_path,
                     [kind |-> "file", uid |-> f[real_path].uid, gid |-> f[real_path].gid,
                      mode |-> attr.ia_mode, target |-> <<>>])]

-----------------------------------------------------------------------------
(* inode operations (opts.c) *)

S_ISFIFO(mode) == mode = "S_IFIFO"

pierrefs_link(f, old_dentry, dir, name, perm, flt) ==
    LET rel1 == get_relative_path(old_dentry, flt) IN
    IF rel1.err < 0 THEN [err |-> rel1.err, fs |-> f]
    ELSE LET from == rel1.path
             origin == find_file(f, from, {}) IN
    IF origin.err < 0 THEN [err |-> origin.err, fs |-> f]
    ELSE LET rel2 == get_relative_path_for_file(dir, name, flt) IN
    IF rel2.err < 0 THEN [err |-> rel2.err, fs |-> f]
    ELSE LET to == rel2.path
             dst == find_file(f, to, {}) IN
    IF dst.err >= 0 THEN [err |-> -EEXIST, fs |-> f]
    ELSE LET cc == can_create(to, dst.real_path, perm) IN
    IF cc < 0 THEN [err |-> cc, fs |-> f]
    ELSE LET fp == find_path(f, to, flt) IN
    IF fp.err < 0 THEN [err |-> fp.err, fs |-> fp.fs]
    ELSE IF origin.err = READ_ONLY
    THEN LET sl == symlink_worker(fp.fs, origin.real_path, fp.real_path, flt) IN
         IF sl.err < 0 THEN [err |-> sl.err, fs |-> sl.fs]
         ELSE [err |-> 0, fs |-> unlink_whiteout(sl.fs, to, flt).fs]
    ELSE IF Len(make_rw_path(to)) > PATH_MAX THEN [err |-> -ENAMETOOLONG, fs |-> fp.fs]
    ELSE LET lk == link_worker(fp.fs, origin.real_path, make_rw_path(to), flt) IN
         IF lk.err < 0 THEN [err |-> lk.err, fs |-> lk.fs]
         ELSE [err |-> 0, fs |-> unlink_whiteout(lk.fs, to, flt).fs]

pierrefs_mkdir(f, dir, name, mode, perm, flt) ==
    LET rel == get_relative_path_for_file(dir, name, flt) IN
    IF rel.err < 0 THEN [err |-> rel.err, fs |-> f]
    ELSE LET path == rel.path
             loc == find_file(f, path, {}) IN
    IF loc.err >= 0 THEN [err |-> -EEXIST, fs |-> f]
    ELSE IF Len(make_rw_path(path)) > PATH_MAX THEN [err |-> -ENAMETOOLONG, fs |-> f]
    ELSE LET real_path == make_rw_path(path)
             cc == can_create(path, real_path, perm) IN
    IF cc < 0 THEN [err |-> cc, fs |-> f]
    ELSE LET fp == find_path(f, path, flt) IN
    IF fp.err < 0 THEN [err |-> fp.err, fs |-> fp.fs]
    ELSE LET mk == mkdir_worker(fp.fs, fp.real_path, mode, flt) IN
    IF mk.err < 0 THEN [err |-> mk.err, fs |-> mk.fs]
    ELSE LET hd == hide_directory_contents(path) IN
    IF hd < 0
    THEN LET dentry == get_path_dentry(mk.fs, fp.real_path) IN
         IF dentry.err < 0 THEN [err |-> hd, fs |-> mk.fs]
         ELSE [err |-> hd, fs |-> vfs_unlink(mk.fs, dentry.dentry, flt).fs]
    ELSE [err |-> 0, fs |-> unlink_whiteout(mk.fs, path, flt).fs]

\* pierrefs_mknod taking only a positive find_file result as "exists"
pierrefs_mknod_gt(f, dir, name, mode, perm, flt) ==
    LET rel == get_relative_path_for_file(dir, name, flt) IN
    IF rel.err < 0 THEN [err |-> rel.err, fs |-> f]
    ELSE LET path == rel.path
             loc == find_file(f, path, {}) IN
    IF loc.err > 0 THEN [err |-> -EEXIST, fs |-> f]
    ELSE LET fp == find_path(f, path, flt) IN
    IF fp.err < 0 THEN [err |-> fp.err, fs |-> fp.fs]
    ELSE LET mk == IF S_ISFIFO(mode) THEN mkfifo(fp.fs, fp.real_path, mode, flt)
                   ELSE mknod(fp.fs, fp.real_path, mode, flt) IN
    IF mk.err < 0 THEN [err |-> mk.err, fs |-> mk.fs]
    ELSE [err |-> 0, fs |-> unlink_whiteout(mk.fs, path, flt).fs]

pierrefs_mknod(f, dir, name, mode, perm, flt) ==
    LET rel == get_relative_path_for_file(dir, name, flt) IN
    IF rel.err < 0 THEN [err |-> rel.err, fs |-> f]
    ELSE LET path == rel.path
             loc == find_file(f, path, {}) IN
    IF loc.err >= 0 THEN [err |-> -EEXIST, fs |-> f]
    ELSE LET fp == find_path(f, path, flt) IN
    IF fp.err < 0 THEN [err |-> fp.err, fs |-> fp.fs]
    ELSE LET mk == IF S_ISFIFO(mode) THEN mkfifo(fp.fs, fp.real_path, mode, flt)
                   ELSE mknod(fp.fs, fp.real_path, mode, flt) IN
    IF mk.err < 0 THEN [err |-> mk.err, fs |-> mk.fs]
    ELSE [err |-> 0, fs |-> unlink_whiteout(mk.fs, path, flt).fs]

\* pierrefs_setattr changing the found object wherever it is
pierrefs_setattr_any(f, dentry, attr, flt) ==
    LET rel == get_relative_path(dentry, flt) IN
    IF rel.err # 0 THEN [err |-> rel.err, fs |-> f]
    ELSE LET path == rel.path
             loc == find_file(f, path, {}) IN
    IF loc.err < 0 THEN [err |-> loc.err, fs |-> f]
    ELSE notify_change(f, loc.real_path, attr, flt)

pierrefs_setattr(f, dentry, attr, flt) ==
    LET rel == get_relative_path(dentry, flt) IN
    IF rel.err # 0 THEN [err |-> rel.err, fs |-> f]
    ELSE LET path == rel.path
             loc == find_file(f, path, {}) IN
    IF loc.err < 0 THEN [err |-> loc.err, fs |-> f]
    ELSE IF loc.err = READ_WRITE \/ loc.err = READ_WRITE_COPYUP
    THEN notify_change(f, loc.real_path, attr, flt)
    ELSE set_me_worker(f, path, loc.real_path, attr, flt)

pierrefs_symlink(f, dir, name, symname, perm, flt) ==
    LET rel == get_relative_path_for_file(dir, name, flt) IN
    IF rel.err < 0 THEN [err |-> rel.err, fs |-> f]
    ELSE LET to == rel.path
             loc == find_file(f, to, {}) IN
    IF loc.err >= 0 THEN [err |-> -EEXIST, fs |-> f]
    ELSE IF Len(make_rw_path(to)) > PATH_MAX THEN [err |-> -ENAMETOOLONG, fs |-> f]
    ELSE LET real_to == make_rw_path(to)
             cc == can_create(to, real_to, perm) IN
    IF cc < 0 THEN [err |-> cc, fs |-> f]
    ELSE LET fp == find_path(f, to, flt) IN
    IF fp.err < 0 THEN [err |-> fp.err, fs |-> fp.fs]
    ELSE LET sl == symlink_worker(fp.fs, symname, fp.real_path, flt) IN
    IF sl.err < 0 THEN [err |-> sl.err, fs |-> sl.fs]
    ELSE [err |-> 0, fs |-> unlink_whiteout(sl.fs, to, flt).fs]

-----------------------------------------------------------------------------
(* requests *)

Front(d) == SubSeq(d, 1, Len(d) - 1)
Last(d) == d[Len(d)]

RoFile == [kind |-> "file", uid |-> Requester.uid, gid |-> Requester.gid,
           mode |-> "0644", target |-> <<>>]

\* what the RO branch holds at mount time: /a and /d, with or without /d/a
RoTrees ==
    { { <<NameA>>, <<NameD>> }, { <<NameA>>, <<NameD>>, <<NameD, NameA>> } }

MountedOn(t) ==
    [p \in {read_only_branch, read_write_branch} \cup { make_ro_path(JoinPath(d)) : d \in t }
       |-> IF p \in {read_only_branch, read_write_branch} \/ p = make_ro_path(JoinPath(<<NameD>>))
           THEN Dir(Requester) ELSE RoFile]

-----------------------------------------------------------------------------
(* mount: branches discovery (main.c) *)

\* the null pointer (no path is equal to it)
NULL == <<"NULL">>

\* strchr(s, c) on the string that starts at index from: index of the first
\* c, 0 for NULL
strchr(s, from, c) ==
    IF \E i \in from..Len(s) : s[i] = c
    THEN CHOOSE i \in from..Len(s) : s[i] = c /\ \A j \in from..(i-1) : s[j] # c
    ELSE 0

\* the character a pointer into s designates ("\0" at and after the end)
CharAt(s, i) == IF i >= 1 /\ i <= Len(s) THEN s[i] ELSE "\\0"

\* strncmp(s + i, r, 2) for a two-character r
strncmp(s, i, r) ==
    IF CharAt(s, i) # r[1] THEN 1
    ELSE IF CharAt(s, i + 1) # r[2] THEN 1
    ELSE 0

\* what the bytes after an unterminated path read as
Junk == <<"?">>

\* make_path ends with *path[n] = '\0', which is *(path[n]) and not
\* (*path)[n]: for n > 0 the byte after the copied name is never written and
\* a byte is written through whatever pointer lies n slots after *path.  The
\* outcomes: the byte after the name happens to be 0 ("nul"), it is not
\* ("junk"), or the stray write faults ("oops").  For n = 0 the statement
\* is the intended one.
MakePathOutcomes == {"nul", "junk", "oops"}

make_path(s, start, n0, ub) ==
    IF CharAt(s, start) # "/" THEN [err |-> -EINVAL, path |-> NULL, oops |-> FALSE]
    ELSE LET n == IF CharAt(s, start + n0 - 1) = "/" THEN n0 - 1 ELSE n0
             name == SubSeq(s, start, start + n - 1)
         IN IF n = 0 THEN [err |-> 0, path |-> name, oops |-> FALSE]
            ELSE IF ub = "oops" THEN [err |-> 0, path |-> name, oops |-> TRUE]
            ELSE IF ub = "junk" THEN [err |-> 0, path |-> name \o Junk, oops |-> FALSE]
            ELSE [err |-> 0, path |-> name, oops |-> FALSE]

\* filp_open(path, O_RDONLY, 0) on the concrete file system: a trailing
\* separator is accepted on a directory.  (The S_IFDIR test of main.c:162 is
\* on the root of the file system that holds the branch, a directory.)
filp_open(f, path) ==
    LET p == IF Len(path) > 1 /\ path[Len(path)] = "/" THEN Front(path) ELSE path IN
    IF p \notin DOMAIN f THEN -ENOENT
    ELSE IF p # path /\ f[p].kind # "dir" THEN -ENOTDIR
    ELSE 0

NoInfo == [allocated |-> FALSE, read_only_branch |-> NULL, read_write_branch |-> NULL]
ZeroInfo == [allocated |-> TRUE, read_only_branch |-> NULL, read_write_branch |-> NULL]

\* the result of get_branches: err, sb_info as it leaves it, oops when a
\* make_path call did not return
BranchesDone(err, info) == [err |-> err, sb_info |-> info, oops |-> FALSE]
BranchesOops(info) == [err |-> 0, sb_info |-> info, oops |-> TRUE]

\* second half of get_branches (main.c:95-203), type as the first half left it
get_branches_second(f, arg, info, forced_ro, part2_0, type, ub2) ==
    LET part2 == part2_0 + 1 IN
    LET sec ==
        IF type # 0
        THEN LET mp == make_path(arg, part2, type - part2, ub2) IN
             IF mp.err # 0 \/ mp.path = NULL THEN BranchesDone(mp.err, info)
             ELSE IF mp.oops THEN BranchesOops(info)
             ELSE IF strncmp(arg, type + 1, <<"R", "W">>) = 0
             THEN IF info.read_write_branch # NULL THEN BranchesDone(-EINVAL, info)
                  ELSE BranchesDone(0, [info EXCEPT !.read_write_branch = mp.path])
             ELSE IF strncmp(arg, type + 1, <<"R", "O">>) # 0 THEN BranchesDone(-EINVAL, info)
             ELSE IF forced_ro THEN BranchesDone(-EINVAL, info)
             ELSE BranchesDone(0, [info EXCEPT !.read_only_branch = mp.path])
        ELSE IF info.read_write_branch # NULL
        THEN LET mp == make_path(arg, part2, Len(arg) - part2 + 1, ub2) IN
             IF mp.err # 0 \/ mp.path = NULL THEN BranchesDone(mp.err, info)
             ELSE IF mp.oops THEN BranchesOops([info EXCEPT !.read_only_branch = mp.path])
             ELSE BranchesDone(0, [info EXCEPT !.read_only_branch = mp.path])
        ELSE IF info.read_only_branch # NULL
        THEN LET mp == make_path(arg, part2, Len(arg) - part2 + 1, ub2) IN
             IF mp.err # 0 \/ mp.path = NULL THEN BranchesDone(mp.err, info)
             ELSE IF mp.oops THEN BranchesOops([info EXCEPT !.read_write_branch = mp.path])
             ELSE BranchesDone(0, [info EXCEPT !.read_write_branch = mp.path])
        ELSE BranchesDone(0, info)
    IN
    IF sec.oops \/ sec.err # 0 THEN sec
    ELSE IF sec.sb_info.read_only_branch = NULL \/ sec.sb_info.read_write_branch = NULL
    THEN BranchesDone(-EINVAL, sec.sb_info)
    ELSE IF filp_open(f, sec.sb_info.read_only_branch) < 0
    THEN BranchesDone(filp_open(f, sec.sb_info.read_only_branch), sec.sb_info)
    ELSE IF filp_open(f, sec.sb_info.read_write_branch) < 0
    THEN BranchesDone(filp_open(f, sec.sb_info.read_write_branch), sec.sb_info)
    ELSE BranchesDone(0, sec.sb_info)

get_branches(f, arg, info, ub1, ub2) ==
    LET part2 == strchr(arg, 1, ":") IN
    IF part2 = 0 THEN BranchesDone(-EINVAL, info)
    ELSE LET type == strchr(arg, 1, "=") IN
    IF type # 0 /\ type < part2
    THEN LET mp == make_path(arg, 1, type - 1, ub1) IN
         IF mp.err # 0 \/ mp.path = NULL THEN BranchesDone(mp.err, info)
         ELSE IF mp.oops THEN BranchesOops(info)
         ELSE IF strncmp(arg, type + 1, <<"R", "W">>) = 0
         THEN get_branches_second(f, arg, [info EXCEPT !.read_write_branch = mp.path],
                                  FALSE, part2, strchr(arg, part2, "="), ub2)
         ELSE IF strncmp(arg, type + 1, <<"R", "O">>) # 0 THEN BranchesDone(-EINVAL, info)
         ELSE get_branches_second(f, arg, [info EXCEPT !.read_only_branch = mp.path],
                                  TRUE, part2, strchr(arg, part2, "="), ub2)
    ELSE LET mp == make_path(arg, 1, part2 - 1, ub1) IN
         IF mp.err # 0 \/ mp.path = NULL THEN BranchesDone(mp.err, info)
         ELSE IF mp.oops THEN BranchesOops([info EXCEPT !.read_only_branch = mp.path])
         ELSE get_branches_second(f, arg, [info EXCEPT !.read_only_branch = mp.path],
                                  FALSE, part2, type, ub2)

\* pierrefs_read_super: s_fs_info and the result the mount call gets; when
\* get_branches does not return, nothing after it runs
pierrefs_read_super(f, raw_data, ub1, ub2) ==
    IF raw_data = NULL THEN [err |-> -EINVAL, s_fs_info |-> NoInfo, oops |-> FALSE]
    ELSE LET gb == get_branches(f, raw_data, ZeroInfo, ub1, ub2) IN
    IF gb.oops THEN [err |-> 0, s_fs_info |-> gb.sb_info, oops |-> TRUE]
    ELSE IF gb.err # 0 THEN [err |-> gb.err, s_fs_info |-> NoInfo, oops |-> FALSE]
    ELSE [err |-> 0, s_fs_info |-> gb.sb_info, oops |-> FALSE]

\* the branch specifications a mount can be given: A[=ROLE]:B[=ROLE]
MountRoles == {"", "RO", "RW", "XX", "RWX"}
MountSeps == {<<":">>, <<>>}
MountPathsA == { <<"/", "r">>, <<"/", "r", "/">>, <<"r">>, <<"/", "r", "/", "/">> }
MountPathsB == { <<"/", "w">>, <<"/", "w", "/">>, <<"w">>, <<"/", "w", "/", "/">> }

MountForms == [a : MountPathsA, ra : MountRoles, sep : MountSeps,
               b : MountPathsB, rb : MountRoles]

RoleStr(r) ==
    IF r = "" THEN <<>>
    ELSE IF r = "RO" THEN <<"=", "R", "O">>
    ELSE IF r = "RW" THEN <<"=", "R", "W">>
    ELSE IF r = "XX" THEN <<"=", "X", "X">>
    ELSE <<"=", "R", "W", "X">>

ArgOf(form) == form.a \o RoleStr(form.ra) \o form.sep \o form.b \o RoleStr(form.rb)

\* the mount the requests of this model run on: "/r:/w"
MountedForm == [a |-> read_only_branch, ra |-> "", sep |-> <<":">>,
                b |-> read_write_branch, rb |-> ""]

NotMounted(form) ==
    [form |-> form, done |-> FALSE, err |-> 0, oops |-> FALSE, s_fs_info |-> NoInfo]

MountResult(form, rs) ==
    [form |-> form, done |-> TRUE, err |-> rs.err, oops |-> rs.oops,
     s_fs_info |-> rs.s_fs_info]

-----------------------------------------------------------------------------
(* concurrent requests: two requests in flight on one mount, each advancing
   by the calls its code makes; nothing in main.c or opts.c takes a lock.
   The handlers keep their path strings in the buffers global1 / global2 of
   the mount context (get_context()), unlink_rw_file in buffers of its own. *)

Threads == {1, 2}

\* the dentries two concurrent requests are about
ConcDentries == { <<NameA>>, <<NameD, NameA>> }

\* the storage when the two requests arrive: as mounted, with an RW object
\* over /a, or with /a hidden by a whiteout
ConcStorages ==
    { MountedOn(t) : t \in RoTrees }
    \cup { Put(MountedOn(t), make_rw_path(JoinPath(<<NameA>>)), RoFile) : t \in RoTrees }
    \cup { create_whiteout(MountedOn(t), JoinPath(<<NameA>>), {}).fs : t \in RoTrees }

\* a request before its first step; find_arg / work_arg: the virtual path it
\* has passed to find_file and the real path it has passed to its worker
NewRequest(op, dentry, has_ro_sure, flt) ==
    [op |-> op, dentry |-> dentry, has_ro_sure |-> has_ro_sure, flt |-> flt,
     pc |-> IF op = "mknod" THEN "start" ELSE "probe",
     find_arg |-> NULL, work_arg |-> NULL, has_ro |-> FALSE, ret |-> 0]

IdleRequest == [NewRequest("none", <<>>, FALSE, {}) EXCEPT !.pc = "done"]

NoBuffers == [global1 |-> <<>>, global2 |-> <<>>]

-----------------------------------------------------------------------------
(* requests, continued *)

NoTrip == [stage |-> 0, path |-> <<>>]

CreateOps == {"mkdir", "mknod", "symlink", "link"}

\* the round trip of consecutive requests on one path: 1 after a successful
\* create of a path that did not resolve, 2 after the successful delete that
\* follows, 3 after the create that follows (one the requester is permitted
\* and the storage does not fail)
NextTrip(op, path, ret, perm, flt) ==
    IF op \in {"mknod", "symlink"} /\ trip.stage = 2 /\ trip.path = path
       /\ perm /\ flt = {}
    THEN [stage |-> 3, path |-> path]
    ELSE IF op \in {"mknod", "symlink"} /\ path # <<>> /\ ret = 0
    THEN [stage |-> 1, path |-> path]
    ELSE IF op = "unlink_rw_file" /\ trip.stage = 1 /\ trip.path = path /\ ret = 0
    THEN [stage |-> 2, path |-> path]
    ELSE NoTrip

\* a request returns: the storage is what the handler left, and the request
\* is recorded.  path is <<>> when the virtual path could not be computed.
Return(op, path, from, res, perm, has_ro, open, flt) ==
    /\ nops' = nops + 1
    /\ fs' = res.fs
    /\ last' = [op |-> op, path |-> path, from |-> from, ret |-> res.err,
                perm |-> perm, has_ro |-> has_ro, open |-> open]
    /\ trip' = NextTrip(op, path, res.err, perm, flt)
    /\ UNCHANGED <<mnt, ctx, thr>>

PathOf(d, flt) == IF "relpath" \in flt THEN <<>> ELSE JoinPath(d)

Init ==
    /\ fs \in { MountedOn(t) : t \in RoTrees }
    /\ last = [op |-> "mount", path |-> <<>>, from |-> <<>>, ret |-> 0,
               perm |-> TRUE, has_ro |-> FALSE, open |-> 0]
    /\ trip = NoTrip
    /\ nops = 0
    /\ mnt = MountResult(MountedForm,
                         pierrefs_read_super(fs, ArgOf(MountedForm), "nul", "nul"))
    /\ ctx = NoBuffers
    /\ thr = [t \in Threads |-> IdleRequest]

Mkdir ==
    \E d \in Dentries, perm \in BOOLEAN, flt \in Faults({"relpath", "worker"}) :
        /\ nops < MaxOps
        /\ Return("mkdir", PathOf(d, flt), <<>>,
                  pierrefs_mkdir(fs, Front(d), Last(d), "0755", perm, flt), perm, FALSE, 0, flt)

Mknod ==
    \E d \in Dentries, mode \in {"S_IFIFO", "S_IFREG"}, perm \in BOOLEAN,
       flt \in Faults({"relpath", "worker", "unlink"}) :
        /\ nops < MaxOps
        /\ Return("mknod", PathOf(d, flt), <<>>,
                  pierrefs_mknod(fs, Front(d), Last(d), mode, perm, flt), perm, FALSE, 0, flt)

Symlink ==
    \E d \in Dentries, perm \in BOOLEAN, flt \in Faults({"relpath", "worker", "unlink"}) :
        /\ nops < MaxOps
        /\ Return("symlink", PathOf(d, flt), <<>>,
                  pierrefs_symlink(fs, Front(d), Last(d), <<"t">>, perm, flt), perm, FALSE, 0, flt)

Link ==
    \E old \in LinkSources, d \in Dentries, perm \in BOOLEAN,
       flt \in Faults({"relpath", "worker", "unlink"}) :
        /\ nops < MaxOps
        /\ Return("link", PathOf(d, flt), PathOf(old, flt),
                  pierrefs_link(fs, old, Front(d), Last(d), perm, flt), perm, FALSE, 0, flt)

Setattr ==
    \E d \in Dentries, attr \in Attrs, flt \in Faults({"relpath", "worker", "chown"}) :
        /\ nops < MaxOps
        /\ Return("setattr", PathOf(d, flt), <<>>,
                  pierrefs_setattr(fs, d, attr, flt), TRUE, FALSE, 0, flt)

\* delete of an object of the RW branch; has_ro_sure only when the caller has
\* seen the RO original
UnlinkRwFile ==
    \E d \in Dentries, has_ro_sure \in BOOLEAN, perm \in BOOLEAN,
       flt \in Faults({"worker", "chown", "unlink"}) :
        /\ nops < MaxOps
        /\ has_ro_sure => make_ro_path(JoinPath(d)) \in DOMAIN fs
        /\ LET res == unlink_rw_file(fs, JoinPath(d), make_rw_path(JoinPath(d)),
                                     has_ro_sure, perm, flt)
           IN Return("unlink_rw_file", JoinPath(d), <<>>, res, perm, res.has_ro, res.open, flt)

CreateWhiteout ==
    \E d \in Dentries, flt \in SUBSET {"worker", "chown", "unlink"} :
        /\ nops < MaxOps
        /\ LET res == create_whiteout(fs, JoinPath(d), flt)
           IN Return("create_whiteout", JoinPath(d), <<>>, res, TRUE, FALSE, res.open, flt)

UnlinkWhiteout ==
    \E d \in Dentries, flt \in Faults({"unlink"}) :
        /\ nops < MaxOps
        /\ Return("unlink_whiteout", JoinPath(d), <<>>, unlink_whiteout(fs, JoinPath(d), flt),
                  TRUE, FALSE, 0, flt)

Next ==
    \/ Mknod
    \/ Mkdir
    \/ Symlink
    \/ Link
    \/ Setattr
    \/ UnlinkRwFile
    \/ CreateWhiteout
    \/ UnlinkWhiteout

Spec == Init /\ [][Next]_vars

-----------------------------------------------------------------------------
(* concurrent requests, step by step *)

Finish(t, ret) == [thr EXCEPT ![t].pc = "done", ![t].ret = ret]

\* pierrefs_mknod, opts.c:206: path = global1 is filled from the dentry
MknodStart(t) ==
    /\ thr[t].op = "mknod" /\ thr[t].pc = "start"
    /\ LET rel == get_relative_path_for_file(Front(thr[t].dentry), Last(thr[t].dentry), {})
       IN /\ ctx' = [ctx EXCEPT !.global1 = rel.path]
          /\ thr' = [thr EXCEPT ![t].pc = "find"]
    /\ UNCHANGED <<fs, last, trip, nops, mnt>>

\* opts.c:212: find_file(path, real_path, 0) reads global1, writes global2
MknodFind(t) ==
    /\ thr[t].op = "mknod" /\ thr[t].pc = "find"
    /\ LET loc == find_file(fs, ctx.global1, {})
       IN /\ ctx' = [ctx EXCEPT !.global2 = loc.real_path]
          /\ thr' = IF loc.err >= 0
                    THEN [Finish(t, -EEXIST) EXCEPT ![t].find_arg = ctx.global1]
                    ELSE [thr EXCEPT ![t].pc = "path", ![t].find_arg = ctx.global1]
    /\ UNCHANGED <<fs, last, trip, nops, mnt>>

\* opts.c:218: find_path(path, real_path)
MknodPath(t) ==
    /\ thr[t].op = "mknod" /\ thr[t].pc = "path"
    /\ LET fp == find_path(fs, ctx.global1, {})
       IN /\ fs' = fp.fs
          /\ ctx' = IF fp.err < 0 THEN ctx ELSE [ctx EXCEPT !.global2 = fp.real_path]
          /\ thr' = IF fp.err < 0 THEN Finish(t, fp.err) ELSE [thr EXCEPT ![t].pc = "make"]
    /\ UNCHANGED <<last, trip, nops, mnt>>

\* opts.c:224-235: mkfifo / mknod on real_path = global2
MknodMake(t) ==
    /\ thr[t].op = "mknod" /\ thr[t].pc = "make"
    /\ LET mode == "S_IFREG"
           mk == IF S_ISFIFO(mode) THEN mkfifo(fs, ctx.global2, mode, {})
                 ELSE mknod(fs, ctx.global2, mode, {})
       IN /\ fs' = mk.fs
          /\ thr' = IF mk.err < 0
                    THEN [Finish(t, mk.err) EXCEPT ![t].work_arg = ctx.global2]
                    ELSE [thr EXCEPT ![t].pc = "unwh", ![t].work_arg = ctx.global2]
    /\ UNCHANGED <<ctx, last, trip, nops, mnt>>

\* opts.c:238-240: unlink_whiteout(path), result dropped, return 0
MknodUnlinkWhiteout(t) ==
    /\ thr[t].op = "mknod" /\ thr[t].pc = "unwh"
    /\ fs' = unlink_whiteout(fs, ctx.global1, thr[t].flt).fs
    /\ thr' = Finish(t, 0)
    /\ UNCHANGED <<ctx, last, trip, nops, mnt>>

\* unlink_rw_file, main.c:414-425: has_ro, can_remove
DeleteProbe(t) ==
    /\ thr[t].op = "unlink_rw_file" /\ thr[t].pc = "probe"
    /\ LET path == JoinPath(thr[t].dentry)
           has_ro == IF ~thr[t].has_ro_sure /\ find_file(fs, path, {MUST_READ_ONLY}).err >= 0
                     THEN TRUE
                     ELSE IF thr[t].has_ro_sure THEN TRUE ELSE FALSE
           cr == can_remove(path, make_rw_path(path), TRUE)
       IN thr' = IF cr < 0 THEN [Finish(t, cr) EXCEPT ![t].has_ro = has_ro]
                 ELSE [thr EXCEPT ![t].pc = "unlink", ![t].has_ro = has_ro]
    /\ UNCHANGED <<fs, ctx, last, trip, nops, mnt>>

\* main.c:428-439: get_path_dentry, vfs_unlink
DeleteUnlink(t) ==
    /\ thr[t].op = "unlink_rw_file" /\ thr[t].pc = "unlink"
    /\ LET rw_path == make_rw_path(JoinPath(thr[t].dentry))
           dentry == get_path_dentry(fs, rw_path)
           ul == IF dentry.err < 0 THEN [err |-> dentry.err, fs |-> fs]
                 ELSE vfs_unlink(fs, dentry.dentry, {})
       IN /\ fs' = ul.fs
          /\ thr' = IF ul.err < 0 THEN Finish(t, ul.err)
                    ELSE IF thr[t].has_ro THEN [thr EXCEPT ![t].pc = "whiteout"]
                    ELSE Finish(t, 0)
    /\ UNCHANGED <<ctx, last, trip, nops, mnt>>

\* main.c:442-446: create_whiteout, result dropped, return 0
DeleteWhiteout(t) ==
    /\ thr[t].op = "unlink_rw_file" /\ thr[t].pc = "whiteout"
    /\ fs' = create_whiteout(fs, JoinPath(thr[t].dentry), {}).fs
    /\ thr' = Finish(t, 0)
    /\ UNCHANGED <<ctx, last, trip, nops, mnt>>

ConcInit ==
    /\ fs \in ConcStorages
    /\ last = [op |-> "mount", path |-> <<>>, from |-> <<>>, ret |-> 0,
               perm |-> TRUE, has_ro |-> FALSE, open |-> 0]
    /\ trip = NoTrip
    /\ nops = 0
    /\ mnt = MountResult(MountedForm,
                         pierrefs_read_super(fs, ArgOf(MountedForm), "nul", "nul"))
    /\ ctx = NoBuffers
    /\ \E d1 \in ConcDentries, d2 \in ConcDentries, op2 \in {"mknod", "unlink_rw_file"},
          sure \in BOOLEAN, flt1 \in Faults({"unlink"}) :
            /\ sure => (op2 = "unlink_rw_file" /\ make_ro_path(JoinPath(d2)) \in DOMAIN fs)
            /\ thr = [t \in Threads |->
                        IF t = 1 THEN NewRequest("mknod", d1, FALSE, flt1)
                        ELSE NewRequest(op2, d2, sure, {})]

ConcNext ==
    \E t \in Threads :
        \/ MknodStart(t)
        \/ MknodFind(t)
        \/ MknodPath(t)
        \/ MknodMake(t)
        \/ MknodUnlinkWhiteout(t)
        \/ DeleteProbe(t)
        \/ DeleteUnlink(t)
        \/ DeleteWhiteout(t)

ConcSpec == ConcInit /\ [][ConcNext]_vars

-----------------------------------------------------------------------------
(* the mount on its own: one branch specification, one pierrefs_read_super *)

MountInit ==
    /\ fs = MountedOn({ <<NameA>>, <<NameD>> })
    /\ last = [op |-> "mount", path |-> <<>>, from |-> <<>>, ret |-> 0,
               perm |-> TRUE, has_ro |-> FALSE, open |-> 0]
    /\ trip = NoTrip
    /\ nops = 0
    /\ mnt \in { NotMounted(form) : form \in MountForms }
    /\ ctx = NoBuffers
    /\ thr = [t \in Threads |-> IdleRequest]

PierrefsReadSuper ==
    \E ub1 \in MakePathOutcomes, ub2 \in MakePathOutcomes :
        /\ ~mnt.done
        /\ mnt' = MountResult(mnt.form,
                              pierrefs_read_super(fs, ArgOf(mnt.form), ub1, ub2))
        /\ UNCHANGED <<fs, last, trip, nops, ctx, thr>>

MountNext == PierrefsReadSuper

MountSpec == MountInit /\ [][MountNext]_vars

-----------------------------------------------------------------------------
(* vocabulary of the properties *)

VPaths == { JoinPath(d) : d \in Dentries }

\* "/dir/" and "leaf" of "/dir/leaf"
DirPartOf(P) == SubSeq(P, 1, strrchr(P, "/"))
LeafOf(P) == SubSeq(P, strrchr(P, "/") + 1, Len(P))

WhPrefix == <<".", "w", "h", ".">>
MePrefix == <<".", "m", "e", ".">>

\* RW root + parent directory + ".wh." + leaf
MarkerOf(P) == read_write_branch \o DirPartOf(P) \o WhPrefix \o LeafOf(P)
MeMarkerOf(P) == read_write_branch \o DirPartOf(P) \o MePrefix \o LeafOf(P)

Resolve(f, P) == find_file(f, P, {}).err

ReservedLeaf(p) ==
    /\ Len(LeafOf(p)) >= 4
    /\ SubSeq(LeafOf(p), 1, 4) \in {WhPrefix, MePrefix}

\* p lies in the tree rooted at root
Under(root, p) ==
    /\ Len(p) >= Len(root)
    /\ SubSeq(p, 1, Len(root)) = root
    /\ Len(p) > Len(root) => p[Len(root) + 1] = "/"

\* the concrete paths a step creates, removes or modifies
Touched(f, g) ==
    { p \in (DOMAIN f) \cup (DOMAIN g) :
        \/ ~(p \in DOMAIN f /\ p \in DOMAIN g)
        \/ f[p] # g[p] }

\* this step is a request returning
Served == nops' = nops + 1

-----------------------------------------------------------------------------
(* C1: wherever the whiteout marker RW root + parent + ".wh." + leaf of a
   virtual path exists, the path resolves to NonExistent, whatever RO and RW
   hold at the path itself. *)
C1_WhiteoutHides ==
    \A P \in VPaths : MarkerOf(P) \in DOMAIN fs => Resolve(fs, P) = -ENOENT

\* a marker over a path that is present on RO and on RW at once
C1_Witness ==
    \E P \in VPaths :
        /\ MarkerOf(P) \in DOMAIN fs
        /\ make_ro_path(P) \in DOMAIN fs
        /\ make_rw_path(P) \in DOMAIN fs

(* C2: when unlink_rw_file returns 0 for a path whose RO original exists
   (has_ro), the whiteout marker of the path exists afterwards and the path
   resolves to NonExistent; a failed whiteout creation is not turned into
   success. *)
C2_DeleteLeavesWhiteout ==
    (last.op = "unlink_rw_file" /\ last.ret = 0 /\ last.has_ro)
        => /\ MarkerOf(last.path) \in DOMAIN fs
           /\ Resolve(fs, last.path) = -ENOENT

(* C3: after a successful create of a path that did not resolve and the
   successful delete that follows, the path resolves to NonExistent; the create
   that follows succeeds and leaves no whiteout marker for the path. *)
C3_RoundTrip ==
    /\ trip.stage = 2 => Resolve(fs, trip.path) = -ENOENT
    /\ trip.stage = 3 => (last.ret = 0 /\ MarkerOf(trip.path) \notin DOMAIN fs)

(* C4: unlink_whiteout on a path that has no whiteout marker returns success
   and leaves the RW branch as it was. *)
C4_RemoveIdempotent ==
    [][ (Served /\ last'.op = "unlink_whiteout" /\ MarkerOf(last'.path) \notin DOMAIN fs)
            => (last'.ret = 0 /\ fs' = fs) ]_vars

(* C5: after create_whiteout returns, a marker that exists is owned by 0:0;
   success means the marker exists; and when the ownership change failed
   (-EPERM) the marker is gone. *)
C5_MarkerOwnedByRoot ==
    last.op = "create_whiteout"
        => /\ MarkerOf(last.path) \in DOMAIN fs
                => (fs[MarkerOf(last.path)].uid = 0 /\ fs[MarkerOf(last.path)].gid = 0)
           /\ last.ret = 0 => MarkerOf(last.path) \in DOMAIN fs
           /\ last.ret = -EPERM => MarkerOf(last.path) \notin DOMAIN fs

(* C6 as stated: a create-family request whose target resolves to anything
   but NonExistent returns -EEXIST and changes nothing. *)
C6_ExistsRefused ==
    [][ (Served /\ last'.op \in CreateOps /\ last'.path # <<>>
         /\ Resolve(fs, last'.path) >= 0)
            => (last'.ret = -EEXIST /\ fs' = fs) ]_vars

(* C6 amended: a create-family request whose target resolves to anything but
   NonExistent changes nothing; it returns -EEXIST, except a link whose source
   does not resolve, which returns the error of the source's resolution. *)
C6_ExistsRefusedAmended ==
    [][ (Served /\ last'.op \in CreateOps /\ last'.path # <<>>
         /\ Resolve(fs, last'.path) >= 0)
            => /\ fs' = fs
               /\ IF last'.op = "link" /\ Resolve(fs, last'.from) < 0
                  THEN last'.ret = Resolve(fs, last'.from)
                  ELSE last'.ret = -EEXIST ]_vars

\* a create request has been refused with -EEXIST on a target that resolves
C6_Witness ==
    /\ last.op \in CreateOps
    /\ last.path # <<>>
    /\ last.ret = -EEXIST
    /\ Resolve(fs, last.path) >= 0

(* C7: a create-family request by an identity without write permission on the
   parent of a target that does not resolve (for link: with a source that
   resolves) returns -EACCES and changes nothing on RW. *)
C7_CreateNeedsPermission ==
    [][ (Served /\ last'.op \in CreateOps /\ last'.path # <<>> /\ ~last'.perm
         /\ Resolve(fs, last'.path) < 0
         /\ (last'.op = "link" => Resolve(fs, last'.from) >= 0))
            => (last'.ret = -EACCES /\ fs' = fs) ]_vars

(* C8: no create-family request creates an object whose leaf name starts with
   ".wh." or ".me.". *)
C8_NoReservedCreate ==
    [][ (Served /\ last'.op \in CreateOps)
            => \A p \in (DOMAIN fs') \ (DOMAIN fs) : ~ReservedLeaf(p) ]_vars

(* C9: every object a request creates, modifies or removes lies under the RW
   root; the RO tree is never changed. *)
C9_RoNeverWritten ==
    [][ \A p \in Touched(fs, fs') :
            Under(read_write_branch, p) /\ ~Under(read_only_branch, p) ]_vars

\* a link has fallen back to a symbolic link on RW that points into RO
C9_Witness ==
    /\ last.op = "link"
    /\ last.ret = 0
    /\ fs[make_rw_path(last.path)].kind = "lnk"
    /\ Under(read_only_branch, fs[make_rw_path(last.path)].target)

(* C10: setattr on a path that resolves to ReadOnly touches nothing but the
   ".me." record of the path and the RW directories above it: no object appears
   at the RW place of the path, the RO object is as it was, and the path
   resolves to ReadOnly afterwards. *)
C10_SetattrOnReadOnly ==
    [][ (Served /\ last'.op = "setattr" /\ last'.path # <<>>
         /\ Resolve(fs, last'.path) = READ_ONLY)
            => /\ make_rw_path(last'.path) \notin DOMAIN fs'
               /\ fs'[make_ro_path(last'.path)] = fs[make_ro_path(last'.path)]
               /\ Resolve(fs', last'.path) = READ_ONLY
               /\ \A p \in Touched(fs, fs') :
                     \/ p = MeMarkerOf(last'.path)
                     \/ make_rw_path(last'.path) # p /\ Under(p, make_rw_path(last'.path)) ]_vars

\* an attribute change has been recorded for a path that resolves to ReadOnly
C10_Witness ==
    /\ last.op = "setattr"
    /\ last.path # <<>>
    /\ last.ret = 0
    /\ MeMarkerOf(last.path) \in DOMAIN fs
    /\ Resolve(fs, last.path) = READ_ONLY

(* C11: no path has a ".me." record while it resolves to ReadWrite or
   ReadWriteCopiedUp: once a setattr on a path that resolves to ReadWrite or
   ReadWriteCopiedUp has returned 0, no ".me." record of the path exists. *)
C11_SetattrClearsOverlay ==
    (last.op = "setattr" /\ last.path # <<>> /\ last.ret = 0
     /\ Resolve(fs, last.path) \in {READ_WRITE, READ_WRITE_COPYUP})
        => MeMarkerOf(last.path) \notin DOMAIN fs

(* C12: a link(from, to) that returns 0 has left at the RW place of to a
   symbolic link to the RO concrete path of from exactly when from resolved to
   ReadOnly, and otherwise the object of from (a hard link, no copy through a
   symbolic link); in both cases no whiteout marker of to is left. *)
C12_LinkFallback ==
    [][ (Served /\ last'.op = "link" /\ last'.ret = 0)
            => LET from == last'.from
                   to == last'.path
               IN /\ make_rw_path(to) \in DOMAIN fs'
                  /\ IF Resolve(fs, from) = READ_ONLY
                     THEN /\ fs'[make_rw_path(to)].kind = "lnk"
                          /\ fs'[make_rw_path(to)].target = make_ro_path(from)
                     ELSE /\ Resolve(fs, from) \in {READ_WRITE, READ_WRITE_COPYUP}
                          /\ fs'[make_rw_path(to)] = fs[make_rw_path(from)]
                          /\ fs'[make_rw_path(to)].target # make_ro_path(from)
                  /\ MarkerOf(to) \notin DOMAIN fs' ]_vars

-----------------------------------------------------------------------------
(* vocabulary of the mount properties *)

RECURSIVE StripSeparators(_)
StripSeparators(p) ==
    IF Len(p) > 1 /\ p[Len(p)] = "/" THEN StripSeparators(Front(p)) ELSE p

\* two names of one directory
SamePlace(p, q) == p # NULL /\ q # NULL /\ StripSeparators(p) = StripSeparators(q)

Absolute(p) == Len(p) >= 1 /\ p[1] = "/"

\* at most one side carries a role, RO or RW
RolesInferable(form) ==
    <<form.ra, form.rb>> \in { <<"", "">>, <<"RO", "">>, <<"RW", "">>, <<"", "RO">>, <<"", "RW">> }

\* the first side is the RO branch: it says RO, the other side says RW, or
\* neither says anything
FirstIsRO(form) == form.ra = "RO" \/ form.rb = "RW" \/ (form.ra = "" /\ form.rb = "")

Malformed(form) ==
    \/ form.sep # <<":">>
    \/ form.ra = form.rb /\ form.ra \in {"RO", "RW"}
    \/ form.ra \notin {"", "RO", "RW"}
    \/ form.rb \notin {"", "RO", "RW"}
    \/ ~Absolute(form.a)
    \/ ~Absolute(form.b)

WellFormedBranch(p) ==
    /\ p # NULL
    /\ Absolute(p)
    /\ Len(p) > 1 => p[Len(p)] # "/"

(* C13: for "A[=ROLE]:B[=ROLE]" with absolute A and B where at most one side
   carries a role (RO or RW), the mount succeeds with both branches assigned:
   the side that says RO, or the side opposite to the one that says RW, is the
   RO branch, and with no role at all A is RO and B is RW. *)
C13_RoleInference ==
    (mnt.done /\ mnt.form.sep = <<":">> /\ Absolute(mnt.form.a) /\ Absolute(mnt.form.b)
     /\ RolesInferable(mnt.form))
        => /\ ~mnt.oops
           /\ mnt.err = 0
           /\ mnt.s_fs_info.allocated
           /\ SamePlace(mnt.s_fs_info.read_only_branch,
                        IF FirstIsRO(mnt.form) THEN mnt.form.a ELSE mnt.form.b)
           /\ SamePlace(mnt.s_fs_info.read_write_branch,
                        IF FirstIsRO(mnt.form) THEN mnt.form.b ELSE mnt.form.a)

(* C14: a mount whose specification has no ':', the same role on both sides,
   an unknown role or a non-absolute path fails and leaves no mount context;
   a mount that succeeds leaves a context with its RO branch and its RW branch
   both set, each an absolute path without trailing separator. *)
C14_MountValidation ==
    mnt.done
        => /\ Malformed(mnt.form)
                => (~mnt.oops /\ mnt.err # 0 /\ ~mnt.s_fs_info.allocated)
           /\ (~mnt.oops /\ mnt.err = 0)
                => /\ mnt.s_fs_info.allocated
                   /\ WellFormedBranch(mnt.s_fs_info.read_only_branch)
                   /\ WellFormedBranch(mnt.s_fs_info.read_write_branch)

-----------------------------------------------------------------------------
\* the directory above P is the root of the union or resolves
ParentResolves(f, P) == ParentOf(P) = <<>> \/ Resolve(f, ParentOf(P)) >= 0

(* C16: mkdir of a path (not a reserved name) that resolves to NonExistent
   (whiteouted or absent) under a directory that resolves, by an identity with
   create permission,
   succeeds unless the storage refuses the creation (-EIO, nothing changed):
   it returns 0, a directory exists at the RW concrete path, no whiteout marker
   of the path is left and the path resolves to ReadWrite. *)
C16_MkdirCreates ==
    [][ (Served /\ last'.op = "mkdir" /\ last'.path # <<>> /\ last'.perm
         /\ ~ReservedLeaf(last'.path)
         /\ Resolve(fs, last'.path) = -ENOENT /\ ParentResolves(fs, last'.path))
            => \/ last'.ret = -EIO /\ fs' = fs
               \/ /\ last'.ret = 0
                  /\ make_rw_path(last'.path) \in DOMAIN fs'
                  /\ fs'[make_rw_path(last'.path)].kind = "dir"
                  /\ MarkerOf(last'.path) \notin DOMAIN fs'
                  /\ Resolve(fs', last'.path) = READ_WRITE ]_vars

(* C18: after every call of create_whiteout_worker (through create_whiteout,
   directly or from unlink_rw_file), on the success path as on the
   ownership-failure path, the handle on the marker has been closed: no
   request leaves a handle open. *)
C18_MarkerHandleClosed ==
    last.open = 0

(* C19: when the removal permission check fails in unlink_rw_file, the call
   returns that error (-EACCES) and changes nothing: the RW object at the path
   is still there and no whiteout marker has been created, whatever
   has_ro_sure is. *)
C19_RemoveNeedsPermission ==
    [][ (Served /\ last'.op = "unlink_rw_file" /\ ~last'.perm)
            => /\ last'.ret = -EACCES
               /\ fs' = fs
               /\ last'.open = 0 ]_vars

\* a delete has been refused on a path that has an RW object over its RO
\* original
C19_Witness ==
    /\ last.op = "unlink_rw_file"
    /\ ~last.perm
    /\ last.ret = -EACCES
    /\ last.has_ro
    /\ make_rw_path(last.path) \in DOMAIN fs
    /\ fs[make_rw_path(last.path)].kind # "dir"
    /\ make_ro_path(last.path) \in DOMAIN fs
    /\ MarkerOf(last.path) \notin DOMAIN fs

-----------------------------------------------------------------------------
(* the marker path composition on its own: whiteout calls on virtual paths
   whose marker path is around PATH_MAX long *)

\* a leaf name of n characters
LongLeaf(n) == [i \in 1..n |-> "x"]

\* Len(read_write_branch) + Len("/") + Len(".wh.") + n is the length of the
\* marker path of "/" + LongLeaf(n): the lengths below put it from PATH_MAX - 2
\* to PATH_MAX + 2
LeafLens == (PATH_MAX - 9)..(PATH_MAX - 5)

\* the virtual paths given to the whiteout calls; <<"a">> has no separator
LongPaths == { <<"/">> \o LongLeaf(n) : n \in LeafLens } \cup { <<"/", "a">>, <<"a">> }

\* the bytes the composition of main.c:352-361 (438-447, 460-469) writes into
\* wh_path[PATH_MAX], the terminating '\0' included
wh_path_written(path) ==
    LET tree_path == strrchr(path, "/") IN
    IF tree_path = 0 THEN 0
    ELSE LET sn == snprintf(PATH_MAX, read_write_branch) IN
    IF sn.len > PATH_MAX THEN Len(sn.buf) + 1
    ELSE Len(strcat(strcat(strncat(sn.buf, path, tree_path), <<".", "w", "h", ".">>),
                    StrFrom(path, tree_path + 1))) + 1

\* writing past the end of wh_path is undefined: the call goes on with the
\* overlong string, or the kernel faults and the call does not return
OverrunOutcomes(path) ==
    IF wh_path_written(path) > PATH_MAX THEN {"goes on", "oops"} ELSE {"goes on"}

LongReturn(op, path, res, open, out) ==
    /\ nops' = nops + 1
    /\ fs' = IF out = "oops" THEN fs ELSE res.fs
    /\ last' = [op |-> op, path |-> path, from |-> <<>>,
                ret |-> IF out = "oops" THEN 0 ELSE res.err,
                perm |-> TRUE, has_ro |-> FALSE,
                open |-> IF out = "oops" THEN 0 ELSE open,
                written |-> wh_path_written(path), oops |-> out = "oops"]
    /\ UNCHANGED <<trip, mnt, ctx, thr>>

LongInit ==
    /\ fs = MountedOn({ <<NameA>>, <<NameD>> })
    /\ last = [op |-> "mount", path |-> <<>>, from |-> <<>>, ret |-> 0,
               perm |-> TRUE, has_ro |-> FALSE, open |-> 0, written |-> 0, oops |-> FALSE]
    /\ trip = NoTrip
    /\ nops = 0
    /\ mnt = MountResult(MountedForm,
                         pierrefs_read_super(fs, ArgOf(MountedForm), "nul", "nul"))
    /\ ctx = NoBuffers
    /\ thr = [t \in Threads |-> IdleRequest]

LongCreateWhiteout ==
    \E path \in LongPaths, flt \in Faults({"worker", "chown"}),
       out \in {"goes on", "oops"} :
        /\ nops < MaxOps
        /\ out \in OverrunOutcomes(path)
        /\ LET res == create_whiteout(fs, path, flt)
           IN LongReturn("create_whiteout", path, res, res.open, out)

LongFindWhiteout ==
    \E path \in LongPaths, out \in {"goes on", "oops"} :
        /\ nops < MaxOps
        /\ out \in OverrunOutcomes(path)
        /\ LongReturn("find_whiteout", path, [err |-> find_whiteout(fs, path), fs |-> fs],
                      0, out)

LongUnlinkWhiteout ==
    \E path \in LongPaths, flt \in Faults({"unlink"}), out \in {"goes on", "oops"} :
        /\ nops < MaxOps
        /\ out \in OverrunOutcomes(path)
        /\ LongReturn("unlink_whiteout", path, unlink_whiteout(fs, path, flt), 0, out)

LongNext ==
    \/ LongCreateWhiteout
    \/ LongFindWhiteout
    \/ LongUnlinkWhiteout

LongSpec == LongInit /\ [][LongNext]_vars

(* C20: create_whiteout, find_whiteout and unlink_whiteout return
   -ENAMETOOLONG and change nothing in the storage whenever the marker path
   (RW root + parent directory + ".wh." + leaf) is longer than PATH_MAX, and
   never write more than PATH_MAX bytes into the path buffer; a virtual path
   without '/' is refused with -EINVAL. *)
C20_MarkerPathLengthSafe ==
    [][ Served
            => /\ ~last'.oops
               /\ last'.written <= PATH_MAX
               /\ strrchr(last'.path, "/") = 0 => (last'.ret = -EINVAL /\ fs' = fs)
               /\ (strrchr(last'.path, "/") # 0 /\ Len(MarkerOf(last'.path)) > PATH_MAX)
                    => (last'.ret = -ENAMETOOLONG /\ fs' = fs) ]_vars

-----------------------------------------------------------------------------
\* both requests have returned
BothReturned == \A t \in Threads : thr[t].pc = "done"

(* C15: under every interleaving of a create (mknod: resolve, create object,
   remove whiteout) and a delete (unlink_rw_file: probe RO, unlink RW object,
   create whiteout) on the same virtual path, once both have returned the
   whiteout marker of the path and an RW object at the path do not exist
   together. *)
C15_NoWhiteoutOverObject ==
    (BothReturned /\ thr[1].op = "mknod" /\ thr[2].op = "unlink_rw_file"
     /\ thr[1].dentry = thr[2].dentry)
        => ~(/\ MarkerOf(JoinPath(thr[1].dentry)) \in DOMAIN fs
             /\ make_rw_path(JoinPath(thr[1].dentry)) \in DOMAIN fs)

(* C17: when two handlers run concurrently on different virtual paths, the
   virtual path each one passes to find_file and the real path it passes to
   its worker are the ones of its own dentry, never what the other request
   wrote into global1 / global2. *)
C17_OwnPathBuffers ==
    (thr[1].op = "mknod" /\ thr[2].op = "mknod" /\ thr[1].dentry # thr[2].dentry)
        => \A t \in Threads :
              /\ thr[t].find_arg # NULL => thr[t].find_arg = JoinPath(thr[t].dentry)
              /\ thr[t].work_arg # NULL
                    => thr[t].work_arg = make_rw_path(JoinPath(thr[t].dentry))


-----------------------------------------------------------------------------
(* requests that go through the path buffers of the context: open, lookup
   and setattr one after the other, global1 and global2 kept from one request
   to the next *)

\* what a failing get_relative_path leaves in its output buffer: the string
\* the previous request left there, or an empty string
RelPathLeaves == {"untouched", "emptied"}

BufferAfter(buf, rel, left) ==
    IF rel.err >= 0 THEN rel.path
    ELSE IF left = "untouched" THEN buf ELSE <<>>

\* open_worker_2 with O_RDONLY: the file object of real_path, or ERR_PTR
open_worker_2(f, real_path, flt) ==
    IF "worker" \in flt \/ real_path \notin DOMAIN f
    THEN [err |-> -EIO, filp |-> NULL]
    ELSE [err |-> 0, filp |-> real_path]

\* pierrefs_open: the result of get_relative_path is assigned to err and
\* overwritten by find_file's before it is read
pierrefs_open(f, bufs, dentry, left, flt) ==
    LET rel == get_relative_path(dentry, flt)
        path == BufferAfter(bufs.global1, rel, left)
        loc == find_file(f, path, {})
    IN IF loc.err < 0
       THEN [err |-> loc.err, fs |-> f, find_arg |-> path, private_data |-> NULL,
             bufs |-> [bufs EXCEPT !.global1 = path]]
       ELSE LET real_file == open_worker_2(f, loc.real_path, flt)
                after == [global1 |-> path, global2 |-> loc.real_path]
            IN IF real_file.err < 0
               THEN [err |-> real_file.err, fs |-> f, find_arg |-> path,
                     private_data |-> NULL, bufs |-> after]
               ELSE [err |-> 0, fs |-> f, find_arg |-> path,
                     private_data |-> real_file.filp, bufs |-> after]

pierrefs_lookup(f, bufs, dir, name, left, flt) ==
    LET rel == get_relative_path_for_file(dir, name, flt)
        path == BufferAfter(bufs.global1, rel, left)
    IN IF rel.err < 0
       THEN [err |-> rel.err, fs |-> f, find_arg |-> NULL, private_data |-> NULL,
             bufs |-> [bufs EXCEPT !.global1 = path]]
       ELSE LET loc == find_file(f, path, {})
            IN IF loc.err < 0
               THEN [err |-> loc.err, fs |-> f, find_arg |-> path, private_data |-> NULL,
                     bufs |-> [bufs EXCEPT !.global1 = path]]
               ELSE [err |-> 0, fs |-> f, find_arg |-> path, private_data |-> NULL,
                     bufs |-> [global1 |-> path, global2 |-> loc.real_path]]

\* pierrefs_setattr with the buffers it leaves
pierrefs_setattr_bufs(f, bufs, dentry, attr, left, flt) ==
    LET rel == get_relative_path(dentry, flt)
        path == BufferAfter(bufs.global1, rel, left)
        res == pierrefs_setattr(f, dentry, attr, flt)
    IN IF rel.err # 0
       THEN [err |-> res.err, fs |-> res.fs, find_arg |-> NULL, private_data |-> NULL,
             bufs |-> [bufs EXCEPT !.global1 = path]]
       ELSE LET loc == find_file(f, path, {})
            IN [err |-> res.err, fs |-> res.fs, find_arg |-> path, private_data |-> NULL,
                bufs |-> [global1 |-> path,
                          global2 |-> IF loc.err < 0 THEN bufs.global2 ELSE loc.real_path]]

\* a request returns: relerr is what its virtual-path computation returned
BufReturn(op, d, res, flt) ==
    /\ nops' = nops + 1
    /\ fs' = res.fs
    /\ ctx' = res.bufs
    /\ last' = [op |-> op, path |-> JoinPath(d), from |-> <<>>, ret |-> res.err,
                perm |-> TRUE, has_ro |-> FALSE, open |-> 0,
                relerr |-> get_relative_path(d, flt).err,
                find_arg |-> res.find_arg, private_data |-> res.private_data]
    /\ UNCHANGED <<trip, mnt, thr>>

BufInit ==
    /\ fs \in { MountedOn(t) : t \in RoTrees }
    /\ last = [op |-> "mount", path |-> <<>>, from |-> <<>>, ret |-> 0,
               perm |-> TRUE, has_ro |-> FALSE, open |-> 0,
               relerr |-> 0, find_arg |-> NULL, private_data |-> NULL]
    /\ trip = NoTrip
    /\ nops = 0
    /\ mnt = MountResult(MountedForm,
                         pierrefs_read_super(fs, ArgOf(MountedForm), "nul", "nul"))
    /\ ctx = NoBuffers
    /\ thr = [t \in Threads |-> IdleRequest]

BufOpen ==
    \E d \in Dentries, left \in RelPathLeaves, flt \in Faults({"relpath", "worker"}) :
        /\ nops < MaxOps
        /\ BufReturn("open", d, pierrefs_open(fs, ctx, d, left, flt), flt)

BufLookup ==
    \E d \in Dentries, left \in RelPathLeaves, flt \in Faults({"relpath"}) :
        /\ nops < MaxOps
        /\ BufReturn("lookup", d, pierrefs_lookup(fs, ctx, Front(d), Last(d), left, flt), flt)

BufSetattr ==
    \E d \in Dentries, attr \in Attrs, left \in RelPathLeaves,
       flt \in Faults({"relpath", "worker"}) :
        /\ nops < MaxOps
        /\ BufReturn("setattr", d, pierrefs_setattr_bufs(fs, ctx, d, attr, left, flt), flt)

BufNext ==
    \/ BufOpen
    \/ BufLookup
    \/ BufSetattr

BufSpec == BufInit /\ [][BufNext]_vars

(* C21: a handler whose virtual-path computation (get_relative_path,
   get_relative_path_for_file) fails returns that error to its caller, has
   not called find_file and has opened no branch file; pierrefs_open too. *)
C21_PathFailureReturned ==
    last.relerr < 0
        => /\ last.ret = last.relerr
           /\ last.find_arg = NULL
           /\ last.private_data = NULL

\* the same for the handlers other than pierrefs_open
C21_PathFailureReturnedElsewhere ==
    (last.relerr < 0 /\ last.op # "open")
        => /\ last.ret = last.relerr
           /\ last.find_arg = NULL
           /\ last.private_data = NULL

====
